---- MODULE Spec2Model ----
(***************************************************************************)
(* x2t: the TikTok Open API helpers (x2t/tiktok.py: request_common, sign)  *)
(* and the exception handler decorator (x2t/exception.py: handler).        *)
(*                                                                         *)
(* Python str values are sequences of one-character strings, so that       *)
(* sorting, quoting and encoding are computed character by character.      *)
(* A dict is the sequence of its <<key, value>> items in insertion order,  *)
(* with pairwise distinct keys.  A value is a tagged record: a str         *)
(* [t |-> "str", s |-> chars, n |-> 0] or an int [t |-> "int", s |-> <<>>, *)
(* n |-> number].                                                          *)
(***************************************************************************)
EXTENDS Integers, Sequences, FiniteSets, TLC

VARIABLES
    sign_pc,        \* sign: "idle" before a call, "returned" after it
    sign_args,      \* sign: the arguments of the last call
    keys,           \* sign: local keys (tiktok.py:93)
    body_encoded,   \* sign: what line 98 appended for the body
    input_data,     \* sign: local input_data after line 100
    signature,      \* sign: the value returned at line 101
    heap,           \* the caller's params mappings, by object id
    clock,          \* the Unix clock, in seconds
    rc,             \* request_common: the frame of each thread's call
    calls,          \* request_common: calls each thread has started
    http,           \* the HTTP calls issued so far, in order
    wrapper,        \* handler: the frame of the wrapper's invocation
    logs            \* handler: the records handed to the logger

vars == <<sign_pc, sign_args, keys, body_encoded, input_data, signature,
          heap, clock, rc, calls, http, wrapper, logs>>

sign_vars == <<sign_pc, sign_args, keys, body_encoded, input_data, signature>>
dispatch_vars == <<heap, clock, rc, calls, http>>
guard_vars == <<wrapper, logs>>

(***************************************************************************)
(* Bounds                                                                  *)
(***************************************************************************)
MaxParams == 3      \* items in a params mapping handed to sign
MinClock == 9       \* the Unix clock when a run starts
MaxClock == 10      \* the Unix clock stops here
MaxPerf == 2        \* last reading of time.perf_counter() in a run
MaxCalls == 2       \* request_common calls per thread

(***************************************************************************)
(* Strings                                                                 *)
(***************************************************************************)
StrVal(s) == [t |-> "str", s |-> s, n |-> 0]
IntVal(n) == [t |-> "int", s |-> <<>>, n |-> n]

\* ord(c) of the characters the model uses
Codepoint(c) ==
    CASE c = " " -> 32 [] c = "\"" -> 34 [] c = "%" -> 37 [] c = "&" -> 38
      [] c = "+" -> 43 [] c = "," -> 44 [] c = "/" -> 47
      [] c = "0" -> 48 [] c = "1" -> 49 [] c = "2" -> 50 [] c = "3" -> 51
      [] c = "4" -> 52 [] c = "5" -> 53 [] c = "6" -> 54 [] c = "7" -> 55
      [] c = "8" -> 56 [] c = "9" -> 57 [] c = ":" -> 58 [] c = "=" -> 61
      [] c = "?" -> 63 [] c = "Z" -> 90 [] c = "\\" -> 92 [] c = "_" -> 95
      [] c = "a" -> 97 [] c = "c" -> 99 [] c = "d" -> 100 [] c = "e" -> 101
      [] c = "g" -> 103 [] c = "h" -> 104 [] c = "i" -> 105 [] c = "k" -> 107
      [] c = "m" -> 109 [] c = "n" -> 110 [] c = "o" -> 111 [] c = "p" -> 112
      [] c = "s" -> 115 [] c = "t" -> 116 [] c = "v" -> 118 [] c = "y" -> 121
      [] c = "{" -> 123 [] c = "}" -> 125

\* Python's str < str: lexicographic on code points
RECURSIVE StrLess(_, _)
StrLess(a, b) ==
    IF a = <<>> THEN b # <<>>
    ELSE IF b = <<>> THEN FALSE
    ELSE IF Head(a) = Head(b) THEN StrLess(Tail(a), Tail(b))
    ELSE Codepoint(Head(a)) < Codepoint(Head(b))

DigitChar(d) ==
    CASE d = 0 -> "0" [] d = 1 -> "1" [] d = 2 -> "2" [] d = 3 -> "3"
      [] d = 4 -> "4" [] d = 5 -> "5" [] d = 6 -> "6" [] d = 7 -> "7"
      [] d = 8 -> "8" [] d = 9 -> "9"

\* str(n) of a non-negative int: its decimal digits
RECURSIVE IntStr(_)
IntStr(n) == IF n < 10 THEN <<DigitChar(n)>> ELSE IntStr(n \div 10) \o <<DigitChar(n % 10)>>

\* str(v) of a value
Str(v) == IF v.t = "int" THEN IntStr(v.n) ELSE v.s

RECURSIVE Concat(_)
\* "".join(parts)
Concat(parts) == IF parts = <<>> THEN <<>> ELSE Head(parts) \o Concat(Tail(parts))

\* the literals of tiktok.py
SIGN == <<"s", "i", "g", "n">>
ACCESS_TOKEN == <<"a", "c", "c", "e", "s", "s", "_", "t", "o", "k", "e", "n">>
TIMESTAMP == <<"t", "i", "m", "e", "s", "t", "a", "m", "p">>

\* keys the callers of the model use
APP_KEY == <<"a", "p", "p", "_", "k", "e", "y">>
ZONE == <<"Z", "o", "n", "e">>

(***************************************************************************)
(* dict helpers                                                            *)
(***************************************************************************)
Has(d, k) == \E i \in 1..Len(d) : d[i][1] = k
Get(d, k) == d[CHOOSE i \in 1..Len(d) : d[i][1] = k][2]
\* d[k] = v: an existing key keeps its position, a new key goes last
Put(d, k, v) ==
    IF Has(d, k) THEN [i \in 1..Len(d) |-> IF d[i][1] = k THEN <<k, v>> ELSE d[i]]
    ELSE Append(d, <<k, v>>)
DictKeys(d) == [i \in 1..Len(d) |-> d[i][1]]

(***************************************************************************)
(* sign (tiktok.py:62-101)                                                 *)
(***************************************************************************)
\* mutant: the filter forgets "access_token"
ExcludedKeysOnlySign == {SIGN}
\* the list ["sign", "access_token"] of line 93
ExcludedKeys == {SIGN, ACCESS_TOKEN}

\* key for key in params if key not in ["sign", "access_token"]
SelectKeys(params) == SelectSeq(DictKeys(params), LAMBDA k : k \notin ExcludedKeys)

RECURSIVE Insert(_, _)
Insert(k, sorted) ==
    IF sorted = <<>> THEN <<k>>
    ELSE IF StrLess(k, Head(sorted)) THEN <<k>> \o sorted
    ELSE <<Head(sorted)>> \o Insert(k, Tail(sorted))

RECURSIVE SortedFrom(_, _)
SortedFrom(ks, acc) == IF ks = <<>> THEN acc ELSE SortedFrom(Tail(ks), Insert(Head(ks), acc))

\* mutant: the keys are taken in insertion order
SortedKeepsOrder(ks) == ks
\* sorted(ks)
Sorted(ks) == SortedFrom(ks, <<>>)

\* mutant: only the keys are joined, the values are dropped
JoinKeysOnly(params, ks) == Concat([i \in 1..Len(ks) |-> ks[i]])
\* "".join(key + str(params[key]) for key in keys)
JoinKeyValues(params, ks) == Concat([i \in 1..Len(ks) |-> ks[i] \o Str(Get(params, ks[i]))])

RECURSIVE JsonEscape(_)
\* the body of a JSON string: '"' and '\' are escaped
JsonEscape(s) ==
    IF s = <<>> THEN <<>>
    ELSE (IF Head(s) = "\"" THEN <<"\\", "\"">>
          ELSE IF Head(s) = "\\" THEN <<"\\", "\\">>
          ELSE <<Head(s)>>) \o JsonEscape(Tail(s))

JsonString(s) == <<"\"">> \o JsonEscape(s) \o <<"\"">>
JsonValue(v) == IF v.t = "int" THEN IntStr(v.n) ELSE JsonString(v.s)

RECURSIVE JsonItems(_, _, _)
JsonItems(items, item_separator, key_separator) ==
    IF items = <<>> THEN <<>>
    ELSE JsonString(Head(items)[1]) \o key_separator \o JsonValue(Head(items)[2])
         \o (IF Tail(items) = <<>> THEN <<>> ELSE item_separator)
         \o JsonItems(Tail(items), item_separator, key_separator)

\* json.dumps(obj, separators=(item_separator, key_separator)) of a dict
JsonDumpsWith(items, item_separator, key_separator) ==
    <<"{">> \o JsonItems(items, item_separator, key_separator) \o <<"}">>

\* mutant: json.dumps(body, separators=(",", ":")), the compact encoding
JsonDumpsCompact(items) == JsonDumpsWith(items, <<",">>, <<":">>)
\* json.dumps(body): the default separators are (", ", ": ")
JsonDumps(items) == JsonDumpsWith(items, <<",", " ">>, <<":", " ">>)

\* isinstance(body, dict)
IsDict(body) == body.t = "dict"

\* lines 96-98: what is appended for the body
BodyEncoded(body) == IF IsDict(body) THEN JsonDumps(body.items) ELSE <<>>

\* hmac.new(key, msg, hashlib.sha256).hexdigest(), kept symbolic: the digest
\* of a (key, message) pair, distinct pairs giving distinct digests
HmacSha256(key, msg) == [alg |-> "hmac-sha256", key |-> key, msg |-> msg]

\* the locals of sign after line 100, and its result
SignFrame(endpoint, params, app_secret, body) ==
    LET ks == Sorted(SelectKeys(params))
        joined == JoinKeyValues(params, ks)
        enc == BodyEncoded(body)
        data == app_secret \o endpoint \o (joined \o enc) \o app_secret
    IN [keys |-> ks, body_encoded |-> enc, input_data |-> data,
        result |-> HmacSha256(app_secret, data)]

sign(endpoint, params, app_secret, body) == SignFrame(endpoint, params, app_secret, body).result

(***************************************************************************)
(* The calls of sign the model makes                                       *)
(***************************************************************************)
BodyNone == [t |-> "none", items |-> <<>>]
BodyStr == [t |-> "str", items |-> <<>>]
BodyList == [t |-> "list", items |-> <<<<APP_KEY, IntVal(1)>>>>]
BodyDict(items) == [t |-> "dict", items |-> items]

Endpoints == {<<"/", "a">>, <<"/", "a", "1">>}
Secrets == {<<"s", "k">>, <<"k">>}
ParamKeys == {APP_KEY, TIMESTAMP, SIGN, ACCESS_TOKEN, ZONE}
ValuesFor(k) ==
    CASE k = APP_KEY -> {IntVal(12)}
      [] k = TIMESTAMP -> {StrVal(<<"1", "0">>)}
      [] k = SIGN -> {StrVal(<<"a">>), StrVal(<<"Z", "9">>)}
      [] k = ACCESS_TOKEN -> {StrVal(<<"t">>), IntVal(3)}
      [] k = ZONE -> {StrVal(<<"a", " ">>)}

RECURSIVE DictsUpTo(_)
\* the dicts of at most n items over ParamKeys
DictsUpTo(n) ==
    IF n = 0 THEN {<<>>}
    ELSE LET prev == DictsUpTo(n - 1)
         IN prev \cup UNION {{Append(d, <<k, v>>) : v \in ValuesFor(k)} :
                             <<d, k>> \in {x \in prev \X ParamKeys :
                                              Len(x[1]) = n - 1 /\ ~Has(x[1], x[2])}}

ParamDicts == DictsUpTo(MaxParams)

Bodies ==
    {BodyNone, BodyStr, BodyList, BodyDict(<<>>),
     BodyDict(<<<<<<"k">>, StrVal(<<"a", "\"">>)>>>>),
     BodyDict(<<<<<<"k">>, IntVal(12)>>, <<<<"a">>, StrVal(<<"e", ",", "\\">>)>>>>)}

\* the arguments the caller may hand to sign
SignArgs == [endpoint : Endpoints, params : ParamDicts, app_secret : Secrets, body : Bodies]
NoSignArgs == [endpoint |-> <<>>, params |-> <<>>, app_secret |-> <<>>, body |-> BodyNone]

\* one call of sign, from its arguments to its return
SignCall ==
    /\ sign_pc = "idle"
    /\ LET f == SignFrame(sign_args.endpoint, sign_args.params, sign_args.app_secret, sign_args.body)
       IN /\ keys' = f.keys
          /\ body_encoded' = f.body_encoded
          /\ input_data' = f.input_data
          /\ signature' = f.result
    /\ sign_pc' = "returned"
    /\ UNCHANGED <<sign_args, dispatch_vars, guard_vars>>

(***************************************************************************)
(* handler (exception.py:9-47)                                             *)
(*                                                                         *)
(* A Python value of this part is [t |-> type, v |-> text, error |-> text, *)
(* status |-> text]; an exception is [cls |-> class name, arg |-> its one  *)
(* argument, str_ok |-> whether its __str__ returns].                      *)
(***************************************************************************)
PyNone == [t |-> "NoneType", v |-> "None", error |-> "", status |-> ""]
PyFloat(v) == [t |-> "float", v |-> v, error |-> "", status |-> ""]
PyStr(v) == [t |-> "str", v |-> v, error |-> "", status |-> ""]
NoException == [cls |-> "", arg |-> "", str_ok |-> TRUE]

\* the direct base class of a builtin exception class
BaseOf(cls) ==
    CASE cls = "ZeroDivisionError" -> "ArithmeticError"
      [] cls = "ArithmeticError" -> "Exception"
      [] cls = "TypeError" -> "Exception"
      [] cls = "KeyError" -> "LookupError"
      [] cls = "LookupError" -> "Exception"
      [] cls = "BrokenStr" -> "Exception"
      [] cls = "Exception" -> "BaseException"
      [] cls = "KeyboardInterrupt" -> "BaseException"
      [] cls = "SystemExit" -> "BaseException"
      [] OTHER -> "object"

RECURSIVE IsSubclass(_, _)
IsSubclass(cls, base) ==
    IF cls = base THEN TRUE
    ELSE IF cls = "object" THEN FALSE
    ELSE IsSubclass(BaseOf(cls), base)

\* mutant: the handler lets the error through unless it logs it
CatchesWhenLogging(log, e) == log /\ IsSubclass(e.cls, "Exception")
\* line 42: except Exception as e
Catches(log, e) == IsSubclass(e.cls, "Exception")

\* mutant: the record names the class of the error
StrOfClass(e) == e.cls
\* str(e): the argument of the exception; KeyError gives the repr of its key
StrOfException(e) == IF e.cls = "KeyError" THEN "'" \o e.arg \o "'" ELSE e.arg

\* line 45: {"error": str(e), "status": "failed"}
FailureRecord(e) == [t |-> "dict", v |-> "", error |-> StrOfException(e), status |-> "failed"]

Returns(name, value) == [name |-> name, kind |-> "return", value |-> value, exc |-> NoException]
Raises(name, cls, arg, str_ok) ==
    [name |-> name, kind |-> "raise", value |-> PyNone,
     exc |-> [cls |-> cls, arg |-> arg, str_ok |-> str_ok]]

\* the test's methods (tests/test_exception.py:12-18)
raise_exception_division == Raises("raise_exception_division", "ZeroDivisionError", "division by zero", TRUE)
raise_exception_combine_types ==
    Raises("raise_exception_combine_types", "TypeError",
           "can only concatenate str (not \"bool\") to str", TRUE)

\* the callables the model wraps: what one call of each does
Callables ==
    {Returns("divide", PyFloat("2.0")), Returns("noop", PyNone), Returns("name", PyStr("x2t")),
     raise_exception_division, raise_exception_combine_types,
     Raises("lookup", "KeyError", "k", TRUE),
     Raises("broken", "BrokenStr", "", FALSE),
     Raises("interrupted", "KeyboardInterrupt", "", TRUE),
     Raises("leave", "SystemExit", "1", TRUE)}

\* wrapper before its first invocation
IdleWrapper ==
    [pc |-> "idle", log |-> TRUE, timing |-> FALSE, func |-> Returns("noop", PyNone),
     perf |-> 0, start_time |-> 0, result |-> PyNone, raised |-> NoException]

\* wrapper is entered: line 34 (start_time is None when timing is off,
\* and is read only when it is on; it is 0 here then)
WrapperCall ==
    /\ wrapper.pc \notin {"running", "handling"}
    /\ \E log \in BOOLEAN, timing \in BOOLEAN, func \in Callables :
        wrapper' = [wrapper EXCEPT !.pc = "running", !.log = log, !.timing = timing,
                                   !.func = func, !.result = PyNone, !.raised = NoException,
                                   !.start_time = IF timing THEN wrapper.perf ELSE 0]
    /\ logs' = <<>>
    /\ UNCHANGED <<sign_vars, dispatch_vars>>

\* time passes while func runs
PerfTick ==
    /\ wrapper.pc = "running"
    /\ wrapper.perf < MaxPerf
    /\ wrapper' = [wrapper EXCEPT !.perf = @ + 1]
    /\ UNCHANGED <<logs, sign_vars, dispatch_vars>>

\* func returns: lines 36-41
WrapperReturn ==
    /\ wrapper.pc = "running"
    /\ wrapper.func.kind = "return"
    /\ logs' = IF wrapper.timing
               THEN Append(logs, [level |-> "INFO", name |-> wrapper.func.name,
                                  elapsed_time |-> wrapper.perf - wrapper.start_time,
                                  text |-> ""])
               ELSE logs
    /\ wrapper' = [wrapper EXCEPT !.pc = "success", !.result = wrapper.func.value]
    /\ UNCHANGED <<sign_vars, dispatch_vars>>

\* func raises an error the except clause catches: line 42
WrapperCatch ==
    /\ wrapper.pc = "running"
    /\ wrapper.func.kind = "raise"
    /\ Catches(wrapper.log, wrapper.func.exc)
    /\ wrapper' = [wrapper EXCEPT !.pc = "handling"]
    /\ UNCHANGED <<logs, sign_vars, dispatch_vars>>

\* the handler logs and returns the record: lines 43-45
WrapperExcept ==
    /\ wrapper.pc = "handling"
    /\ wrapper.func.exc.str_ok
    /\ logs' = IF wrapper.log
               THEN Append(logs, [level |-> "ERROR", name |-> wrapper.func.name,
                                  elapsed_time |-> 0,
                                  text |-> StrOfException(wrapper.func.exc)])
               ELSE logs
    /\ wrapper' = [wrapper EXCEPT !.pc = "failed", !.result = FailureRecord(wrapper.func.exc)]
    /\ UNCHANGED <<sign_vars, dispatch_vars>>

\* str(e) raises in the handler (line 44 or 45): that error leaves wrapper
WrapperExceptRaises ==
    /\ wrapper.pc = "handling"
    /\ ~wrapper.func.exc.str_ok
    /\ wrapper' = [wrapper EXCEPT !.pc = "propagated",
                                  !.raised = [cls |-> "RuntimeError", arg |-> "__str__", str_ok |-> TRUE]]
    /\ UNCHANGED <<logs, sign_vars, dispatch_vars>>

\* func raises an error the except clause does not catch: it leaves wrapper
WrapperPropagates ==
    /\ wrapper.pc = "running"
    /\ wrapper.func.kind = "raise"
    /\ ~Catches(wrapper.log, wrapper.func.exc)
    /\ wrapper' = [wrapper EXCEPT !.pc = "propagated", !.raised = wrapper.func.exc]
    /\ UNCHANGED <<logs, sign_vars, dispatch_vars>>

(***************************************************************************)
(* request_common (tiktok.py:11-59)                                        *)
(*                                                                         *)
(* A frame of rc names the objects it was handed by their ids in heap      *)
(* ("None" for an absent argument); "local" is the dict that line 54       *)
(* creates, whose items the frame holds itself.                            *)
(***************************************************************************)
Threads == {"t1", "t2"}

\* the functions of requests, and two values that are not functions
AllowedMethods == {"requests.get", "requests.post", "requests.put", "requests.patch", "requests.delete"}
OtherMethods == {"requests.head", "str:GET", "list:[get]"}
\* hash(method) raises TypeError for a list
Hashable(method) == method # "list:[get]"

\* mutant: requests.head passes the check
MethodInSetOrHead(method) == method \in AllowedMethods \cup {"requests.head"}
\* line 51: method in {get, post, put, patch, delete}
MethodInSet(method) == method \in AllowedMethods

HexDigit(d) ==
    CASE d < 10 -> DigitChar(d)
      [] d = 10 -> "A" [] d = 11 -> "B" [] d = 12 -> "C"
      [] d = 13 -> "D" [] d = 14 -> "E" [] d = 15 -> "F"

\* the characters quote_plus leaves as they are: letters, digits and _.-~
Unreserved(c) ==
    \/ c \in {"_", ".", "-", "~"}
    \/ LET o == Codepoint(c) IN (48 <= o /\ o <= 57) \/ (65 <= o /\ o <= 90) \/ (97 <= o /\ o <= 122)

RECURSIVE QuotePlus(_)
\* urllib.parse.quote_plus(s)
QuotePlus(s) ==
    IF s = <<>> THEN <<>>
    ELSE (IF Head(s) = " " THEN <<"+">>
          ELSE IF Unreserved(Head(s)) THEN <<Head(s)>>
          ELSE <<"%", HexDigit(Codepoint(Head(s)) \div 16), HexDigit(Codepoint(Head(s)) % 16)>>)
         \o QuotePlus(Tail(s))

RECURSIVE JoinAmp(_)
JoinAmp(parts) ==
    IF parts = <<>> THEN <<>>
    ELSE IF Tail(parts) = <<>> THEN Head(parts)
    ELSE Head(parts) \o <<"&">> \o JoinAmp(Tail(parts))

\* urllib.parse.urlencode(d): the items in the order of d
UrlEncode(d) == JoinAmp([i \in 1..Len(d) |-> QuotePlus(d[i][1]) \o <<"=">> \o QuotePlus(Str(d[i][2]))])

RECURSIVE RStripSlash(_)
RStripSlash(s) == IF s # <<>> /\ s[Len(s)] = "/" THEN RStripSlash(SubSeq(s, 1, Len(s) - 1)) ELSE s
RECURSIVE LStripSlash(_)
LStripSlash(s) == IF s # <<>> /\ Head(s) = "/" THEN LStripSlash(Tail(s)) ELSE s

\* line 58
BuildUrl(base_url, endpoint, query_string) ==
    RStripSlash(base_url) \o <<"/">> \o LStripSlash(endpoint) \o <<"?">> \o query_string

\* mutant: the timestamp is written whether or not the caller gave one
TimestampAlwaysMissing(d) == TRUE
\* line 55: "timestamp" not in params
TimestampMissing(d) == ~Has(d, TIMESTAMP)

\* the dict a frame's params is bound to
Deref(f) == IF f.params = "local" THEN f.local ELSE heap[f.params]

\* what an argument holds: nothing for None
Held(ref) == IF ref = "None" THEN <<>> ELSE heap[ref]

IdleFrame ==
    [pc |-> "idle", method |-> "requests.get", base_url |-> <<>>, endpoint |-> <<>>,
     params_arg |-> "None", headers |-> "None", body |-> "None",
     params |-> "None", local |-> <<>>, now |-> 0, read_clock |-> FALSE,
     query_string |-> <<>>, url |-> <<>>, error |-> "", response |-> "",
     entry |-> [params |-> <<>>, headers |-> <<>>, body |-> <<>>, clock |-> 0]]

\* the mappings the caller builds before it calls
CallerParams ==
    {<<>>,
     <<<<APP_KEY, StrVal(<<"k", "1">>)>>>>,
     <<<<TIMESTAMP, IntVal(7)>>>>,
     <<<<ZONE, StrVal(<<"a", " ">>)>>, <<TIMESTAMP, StrVal(<<"1", "&">>)>>, <<APP_KEY, IntVal(12)>>>>}
CallerHeaders == <<<<<<"k">>, StrVal(<<"v">>)>>>>
CallerBody == <<<<<<"d">>, StrVal(<<"t">>)>>>>

BaseUrls == {<<"h">>, <<"h", "/", "/">>}
Responses == {"200", "500"}

\* the arguments of request_common the single-threaded caller draws from
AllCalls ==
    [method : AllowedMethods \cup OtherMethods, base_url : BaseUrls, endpoint : Endpoints,
     params : {"None", "p"}, hb : {<<"None", "None">>, <<"h", "b">>}]

\* the arguments the threads draw from
ThreadCalls ==
    [method : {"requests.post", "str:GET", "list:[get]"}, base_url : {<<"h">>},
     endpoint : {<<"/", "a">>}, params : {"None", "p"}, hb : {<<"h", "b">>}]

\* the caller's objects, its params mapping being d
CallerHeap(d) ==
    [o \in {"p", "h", "b"} |-> IF o = "p" THEN d ELSE IF o = "h" THEN CallerHeaders ELSE CallerBody]

IdleFrames == [t \in Threads |-> IdleFrame]
NoCalls == [t \in Threads |-> 0]
NoHttp == [t \in Threads |-> <<>>]

\* the caller calls request_common on thread t
Call(t, inputs) ==
    /\ rc[t].pc \in {"idle", "returned", "raised"}
    /\ calls[t] < MaxCalls
    /\ \E a \in inputs :
        rc' = [rc EXCEPT ![t] =
                  [IdleFrame EXCEPT !.pc = "L51", !.method = a.method, !.base_url = a.base_url,
                                    !.endpoint = a.endpoint, !.params_arg = a.params,
                                    !.headers = a.hb[1], !.body = a.hb[2],
                                    !.entry = [params |-> Held(a.params), headers |-> Held(a.hb[1]),
                                               body |-> Held(a.hb[2]), clock |-> clock]]]
    /\ calls' = [calls EXCEPT ![t] = @ + 1]
    /\ http' = [http EXCEPT ![t] = <<>>]
    /\ UNCHANGED <<heap, clock, sign_vars, guard_vars>>

\* lines 51-53: the method is looked up in the set of the five functions
CheckMethod(t) ==
    /\ rc[t].pc = "L51"
    /\ rc' = [rc EXCEPT ![t] =
                 IF ~Hashable(rc[t].method) THEN [@ EXCEPT !.pc = "raised", !.error = "TypeError"]
                 ELSE IF ~MethodInSet(rc[t].method) THEN [@ EXCEPT !.pc = "raised", !.error = "ValueError"]
                 ELSE [@ EXCEPT !.pc = "L54"]]
    /\ UNCHANGED <<heap, clock, calls, http, sign_vars, guard_vars>>

\* line 54: params = params or {}; None and an empty dict are falsy
BindParams(t) ==
    /\ rc[t].pc = "L54"
    /\ rc' = [rc EXCEPT ![t] =
                 IF rc[t].params_arg = "None" \/ heap[rc[t].params_arg] = <<>>
                 THEN [@ EXCEPT !.pc = "L55", !.params = "local", !.local = <<>>]
                 ELSE [@ EXCEPT !.pc = "L55", !.params = rc[t].params_arg]]
    /\ UNCHANGED <<heap, clock, calls, http, sign_vars, guard_vars>>

\* line 55: if "timestamp" not in params
TestTimestamp(t) ==
    /\ rc[t].pc = "L55"
    /\ rc' = [rc EXCEPT ![t].pc = IF TimestampMissing(Deref(rc[t])) THEN "L56" ELSE "L57"]
    /\ UNCHANGED <<heap, clock, calls, http, sign_vars, guard_vars>>

\* line 56, right-hand side: int(datetime.timestamp(datetime.now()))
ReadClock(t) ==
    /\ rc[t].pc = "L56"
    /\ rc' = [rc EXCEPT ![t].pc = "L56store", ![t].now = clock, ![t].read_clock = TRUE]
    /\ UNCHANGED <<heap, clock, calls, http, sign_vars, guard_vars>>

\* line 56, the store: params["timestamp"] = str(...)
StoreTimestamp(t) ==
    /\ rc[t].pc = "L56store"
    /\ LET d == Put(Deref(rc[t]), TIMESTAMP, StrVal(IntStr(rc[t].now)))
       IN IF rc[t].params = "local"
          THEN /\ rc' = [rc EXCEPT ![t].pc = "L57", ![t].local = d]
               /\ UNCHANGED heap
          ELSE /\ rc' = [rc EXCEPT ![t].pc = "L57"]
               /\ heap' = [heap EXCEPT ![rc[t].params] = d]
    /\ UNCHANGED <<clock, calls, http, sign_vars, guard_vars>>

\* lines 57-58: the query string and the url
EncodeUrl(t) ==
    /\ rc[t].pc = "L57"
    /\ LET q == UrlEncode(Deref(rc[t]))
       IN rc' = [rc EXCEPT ![t].pc = "L59", ![t].query_string = q,
                           ![t].url = BuildUrl(rc[t].base_url, rc[t].endpoint, q)]
    /\ UNCHANGED <<heap, clock, calls, http, sign_vars, guard_vars>>

\* line 59: the HTTP call; the response is returned as it is, and an error
\* of the transport leaves request_common
Send(t) ==
    /\ rc[t].pc = "L59"
    /\ http' = [http EXCEPT ![t] = Append(@, [method |-> rc[t].method, url |-> rc[t].url,
                                                headers |-> rc[t].headers, json |-> rc[t].body])]
    /\ \/ \E r \in Responses : rc' = [rc EXCEPT ![t].pc = "returned", ![t].response = r]
       \/ rc' = [rc EXCEPT ![t].pc = "raised", ![t].error = "ConnectionError"]
    /\ UNCHANGED <<heap, clock, calls, sign_vars, guard_vars>>

\* a second passes
Tick ==
    /\ clock < MaxClock
    /\ clock' = clock + 1
    /\ UNCHANGED <<heap, rc, calls, http, sign_vars, guard_vars>>

(***************************************************************************)
(* Specifications                                                          *)
(***************************************************************************)
\* sign, called once on each of the arguments
InitSign ==
    /\ sign_pc = "idle"
    /\ sign_args \in SignArgs
    /\ keys = <<>>
    /\ body_encoded = <<>>
    /\ input_data = <<>>
    /\ signature = HmacSha256(<<>>, <<>>)
    /\ heap = CallerHeap(<<>>)
    /\ clock = MinClock
    /\ rc = IdleFrames
    /\ calls = NoCalls
    /\ http = NoHttp
    /\ wrapper = IdleWrapper
    /\ logs = <<>>
SpecSign == InitSign /\ [][SignCall]_vars

\* the wrapper of handler, invoked again and again
InitGuard ==
    /\ sign_pc = "idle"
    /\ sign_args = NoSignArgs
    /\ keys = <<>>
    /\ body_encoded = <<>>
    /\ input_data = <<>>
    /\ signature = HmacSha256(<<>>, <<>>)
    /\ heap = CallerHeap(<<>>)
    /\ clock = MinClock
    /\ rc = IdleFrames
    /\ calls = NoCalls
    /\ http = NoHttp
    /\ wrapper = IdleWrapper
    /\ logs = <<>>
GuardNext ==
    \/ WrapperCall
    \/ PerfTick
    \/ WrapperReturn
    \/ WrapperCatch
    \/ WrapperExcept
    \/ WrapperExceptRaises
    \/ WrapperPropagates
SpecGuard == InitGuard /\ [][GuardNext]_vars

\* request_common on the caller's objects, its params mapping being any
\* of CallerParams
InitDispatch ==
    /\ sign_pc = "idle"
    /\ sign_args = NoSignArgs
    /\ keys = <<>>
    /\ body_encoded = <<>>
    /\ input_data = <<>>
    /\ signature = HmacSha256(<<>>, <<>>)
    /\ heap \in {CallerHeap(d) : d \in CallerParams}
    /\ clock = MinClock
    /\ rc = IdleFrames
    /\ calls = NoCalls
    /\ http = NoHttp
    /\ wrapper = IdleWrapper
    /\ logs = <<>>

\* called from one thread, one call after the other
DispatchNext ==
    \/ Call("t1", AllCalls)
    \/ CheckMethod("t1")
    \/ BindParams("t1")
    \/ TestTimestamp("t1")
    \/ ReadClock("t1")
    \/ StoreTimestamp("t1")
    \/ EncodeUrl("t1")
    \/ Send("t1")
    \/ Tick
SpecDispatch == InitDispatch /\ [][DispatchNext]_vars

\* called from the two threads at once
ThreadsNext ==
    \/ \E t \in Threads : Call(t, ThreadCalls)
    \/ \E t \in Threads : CheckMethod(t)
    \/ \E t \in Threads : BindParams(t)
    \/ \E t \in Threads : TestTimestamp(t)
    \/ \E t \in Threads : ReadClock(t)
    \/ \E t \in Threads : StoreTimestamp(t)
    \/ \E t \in Threads : EncodeUrl(t)
    \/ \E t \in Threads : Send(t)
    \/ Tick
SpecThreads == InitDispatch /\ [][ThreadsNext]_vars

(***************************************************************************)
(* Properties of handler                                                   *)
(***************************************************************************)
GuardOver == wrapper.pc \in {"success", "failed", "propagated"}

\* the message of an error: its argument, and for a KeyError the repr of
\* the missing key
Message(e) == IF e.cls = "KeyError" THEN "'" \o e.arg \o "'" ELSE e.arg

Guarded(e) == IsSubclass(e.cls, "Exception") /\ e.str_ok

DivisionCalled ==
    /\ GuardOver
    /\ wrapper.func = raise_exception_division
    /\ ~wrapper.log

Signed == sign_pc = "returned"

\* the items of d whose key is not "sign" or "access_token"
SignedItems(d) == SelectSeq(d, LAMBDA item : item[1] \notin {SIGN, ACCESS_TOKEN})

\* the ways of giving "sign" and "access_token" to a call: none, one or
\* both of them, in either order, with any of their values
ReservedItems ==
    LET s == {<<SIGN, v>> : v \in ValuesFor(SIGN)}
        a == {<<ACCESS_TOKEN, v>> : v \in ValuesFor(ACCESS_TOKEN)}
    IN {<<>>} \cup {<<x>> : x \in s \cup a}
       \cup {<<x, y>> : <<x, y>> \in (s \X a) \cup (a \X s)}

\* the params that agree with d on every key but "sign" and "access_token",
\* these two being put before or after the other items
ReservedVariants(d) ==
    {SubSeq(r, 1, i) \o SignedItems(d) \o SubSeq(r, i + 1, Len(r)) :
        <<r, i>> \in {x \in ReservedItems \X (0..2) : x[2] <= Len(x[1])}}

\* C4: the signature does not depend on the keys "sign" and
\* "access_token": params that differ only in the presence and the values
\* of these two keys give the same signature.
C4_ReservedKeysIgnored ==
    Signed =>
        \A d \in ReservedVariants(sign_args.params) :
            sign(sign_args.endpoint, d, sign_args.app_secret, sign_args.body) = signature

\* a call was given both reserved keys and a key that is signed
C4_Witness ==
    /\ Signed
    /\ Has(sign_args.params, SIGN) /\ Has(sign_args.params, ACCESS_TOKEN)
    /\ Has(sign_args.params, APP_KEY)
    /\ keys = <<APP_KEY>>

\* items joined by sep
JoinWith(parts, sep) ==
    Concat([i \in 1..Len(parts) |-> IF i < Len(parts) THEN parts[i] \o sep ELSE parts[i]])

\* the JSON text of a dict of str and int values, its items separated by
\* item_sep and each key from its value by key_sep
JsonText(items, item_sep, key_sep) ==
    <<"{">>
    \o JoinWith([i \in 1..Len(items) |->
                    JsonString(items[i][1]) \o key_sep \o JsonValue(items[i][2])], item_sep)
    \o <<"}">>

\* the text that follows the joined params in input_data
AfterParams ==
    LET before == Len(sign_args.app_secret) + Len(sign_args.endpoint)
                  + Len(JoinKeyValues(sign_args.params, keys))
    IN SubSeq(input_data, before + 1, Len(input_data) - Len(sign_args.app_secret))

\* C5 as stated: a body that is a mapping is appended in its compact JSON
\* encoding ("," and ":" with no space after them); for any other body
\* nothing is appended.
C5_BodyCompact ==
    Signed =>
        /\ AfterParams = body_encoded
        /\ body_encoded = IF sign_args.body.t = "dict"
                          THEN JsonText(sign_args.body.items, <<",">>, <<":">>)
                          ELSE <<>>

\* C5 amended: a body that is a dict is appended in the default encoding of
\* json.dumps, with one space after each "," between items and after each
\* ":" between a key and its value; for any other body nothing is appended.
C5_BodyDefaultSeparators ==
    Signed =>
        /\ AfterParams = body_encoded
        /\ body_encoded = IF sign_args.body.t = "dict"
                          THEN JsonText(sign_args.body.items, <<",", " ">>, <<":", " ">>)
                          ELSE <<>>

\* a body of two items was appended
C5_Witness ==
    /\ Signed
    /\ sign_args.body.t = "dict"
    /\ Len(sign_args.body.items) = 2
    /\ Len(body_encoded) > 2

\* the sequences that hold each element of set S once
Orderings(S) == {s \in [1..Cardinality(S) -> S] : \A i, j \in 1..Cardinality(S) : i # j => s[i] # s[j]}

\* the selected keys of d in ascending order of their code points
Ascending(d) ==
    LET S == {d[i][1] : i \in 1..Len(d)} \ {SIGN, ACCESS_TOKEN}
    IN CHOOSE s \in Orderings(S) : \A i \in 1..(Len(s) - 1) : StrLess(s[i], s[i + 1])

\* the dicts with the items of d in every insertion order
Reorderings(d) == {[i \in 1..Len(d) |-> d[o[i]]] : o \in Orderings(1..Len(d))}

\* C6: the HMAC input is app_secret + endpoint + C + app_secret, C being
\* key + str(value) of the selected keys in ascending order followed by the
\* encoded body; the signature is the HMAC of this input keyed with
\* app_secret, and is the same for every insertion order of params.
C6_CanonicalString ==
    Signed =>
        LET asc == Ascending(sign_args.params)
            C == Concat([i \in 1..Len(asc) |-> asc[i] \o Str(Get(sign_args.params, asc[i]))])
                 \o body_encoded
        IN /\ input_data = sign_args.app_secret \o sign_args.endpoint \o C \o sign_args.app_secret
           /\ signature = HmacSha256(sign_args.app_secret, input_data)
           /\ \A d \in Reorderings(sign_args.params) :
                  sign(sign_args.endpoint, d, sign_args.app_secret, sign_args.body) = signature

\* a call was given "app_key" before "Zone", which sorts first, and a body
C6_Witness ==
    /\ Signed
    /\ Len(sign_args.params) >= 2
    /\ sign_args.params[1][1] = APP_KEY
    /\ sign_args.params[2][1] = ZONE
    /\ keys[1] = ZONE
    /\ sign_args.body.t = "dict"

\* the characters a change may put in
EditChars == {"a", "1", "\"", "\\", " "}

\* s with one character replaced by another one
Changed(s) == {[s EXCEPT ![i] = c] : <<i, c>> \in {x \in (1..Len(s)) \X EditChars : s[x[1]] # x[2]}}

\* d with one character changed in the string form of one signed value
ChangedParams(d) ==
    UNION {{[d EXCEPT ![i] = <<d[i][1], StrVal(s)>>] : s \in Changed(Str(d[i][2]))} :
              i \in {j \in 1..Len(d) : d[j][1] \notin {SIGN, ACCESS_TOKEN}}}

\* a dict body with one character changed in one key or in one str value
ChangedBody(body) ==
    IF body.t # "dict" THEN {}
    ELSE LET items == body.items
             keysChanged ==
                 UNION {{[items EXCEPT ![i] = <<k, items[i][2]>>] :
                            k \in {c \in Changed(items[i][1]) : ~Has(items, c)}} :
                        i \in 1..Len(items)}
             valuesChanged ==
                 UNION {{[items EXCEPT ![i] = <<items[i][1], StrVal(s)>>] :
                            s \in Changed(items[i][2].s)} :
                        i \in {j \in 1..Len(items) : items[j][2].t = "str"}}
         IN {BodyDict(x) : x \in keysChanged \cup valuesChanged}

\* the arguments that differ from a by one single-character change
SingleChanges(a) ==
    {[a EXCEPT !.app_secret = s] : s \in Changed(a.app_secret)}
    \cup {[a EXCEPT !.endpoint = s] : s \in Changed(a.endpoint)}
    \cup {[a EXCEPT !.params = d] : d \in ChangedParams(a.params)}
    \cup {[a EXCEPT !.body = b] : b \in ChangedBody(a.body)}

Escaped == {"\"", "%", "&", "+", ",", "/", ":", "=", "?", "\\", "{", "}"}

HexValue(c) ==
    CASE c = "A" -> 10 [] c = "B" -> 11 [] c = "C" -> 12 [] c = "D" -> 13
      [] c = "E" -> 14 [] c = "F" -> 15
      [] OTHER -> CHOOSE d \in 0..9 : DigitChar(d) = c

RECURSIVE UnquotePlus(_)
\* what a server reads from a quoted text: "+" is a space, %XX a character
UnquotePlus(s) ==
    IF s = <<>> THEN <<>>
    ELSE IF Head(s) = "+" THEN <<" ">> \o UnquotePlus(Tail(s))
    ELSE IF Head(s) = "%" /\ Len(s) >= 3
         THEN <<CHOOSE c \in Escaped : Codepoint(c) = 16 * HexValue(s[2]) + HexValue(s[3])>>
              \o UnquotePlus(SubSeq(s, 4, Len(s)))
    ELSE <<Head(s)>> \o UnquotePlus(Tail(s))

\* the position of the first c in s, or 0
First(s, c) == IF \E i \in 1..Len(s) : s[i] = c THEN CHOOSE i \in 1..Len(s) : s[i] = c /\ \A j \in 1..(i - 1) : s[j] # c ELSE 0

RECURSIVE Split(_, _)
\* the pieces of s between the occurrences of c
Split(s, c) ==
    IF First(s, c) = 0 THEN <<s>>
    ELSE <<SubSeq(s, 1, First(s, c) - 1)>> \o Split(SubSeq(s, First(s, c) + 1, Len(s)), c)

\* the query string of a url: what follows its first "?"
QueryOf(url) == SubSeq(url, First(url, "?") + 1, Len(url))

\* the <<name, value>> entries of a query string, in its order
QueryEntries(q) ==
    IF q = <<>> THEN <<>>
    ELSE LET pieces == Split(q, "&")
         IN [i \in 1..Len(pieces) |->
                <<UnquotePlus(SubSeq(pieces[i], 1, First(pieces[i], "=") - 1)),
                  UnquotePlus(SubSeq(pieces[i], First(pieces[i], "=") + 1, Len(pieces[i])))>>]

\* the entries a dict stands for: each key with the string form of its value
EntriesOf(d) == [i \in 1..Len(d) |-> <<d[i][1], Str(d[i][2])>>]

\* C2: a method that is not one of the five functions makes request_common
\* fail with an invalid-argument error (ValueError; TypeError when the
\* method cannot be hashed) at its first step: no HTTP call is issued, and
\* nothing else of the call has run.
C2_InvalidMethodFailsFirst ==
    \A t \in Threads :
        (rc[t].pc \notin {"idle", "L51"} /\ rc[t].method \notin AllowedMethods) =>
            /\ rc[t].pc = "raised"
            /\ rc[t].error = (IF rc[t].method = "list:[get]" THEN "TypeError" ELSE "ValueError")
            /\ http[t] = <<>>
            /\ rc[t].params = "None" /\ ~rc[t].read_clock
            /\ rc[t].query_string = <<>> /\ rc[t].url = <<>>
            /\ Held(rc[t].params_arg) = rc[t].entry.params

\* requests.head was refused with ValueError, with a params mapping given
C2_Witness ==
    /\ rc["t1"].pc = "raised"
    /\ rc["t1"].method = "requests.head"
    /\ rc["t1"].error = "ValueError"
    /\ rc["t1"].params_arg = "p"
    /\ http["t1"] = <<>>

\* C3: in a call with a valid method, if params is absent or has no
\* "timestamp" key when the call is made, the query string of the requested
\* url ends with a timestamp entry whose value is the clock read during the
\* call, as decimal digits; if params has a "timestamp" key, the query
\* string carries the caller's value and the clock is not read.  Either
\* way there is one timestamp entry, and the params are in their order.
C3_TimestampInQuery ==
    \A t \in Threads :
        http[t] # <<>> =>
            LET f == rc[t]
                q == QueryEntries(QueryOf(http[t][1].url))
            IN /\ Len(http[t]) = 1
               /\ Cardinality({i \in 1..Len(q) : q[i][1] = TIMESTAMP}) = 1
               /\ IF Has(f.entry.params, TIMESTAMP)
                  THEN q = EntriesOf(f.entry.params) /\ ~f.read_clock
                  ELSE /\ q = Append(EntriesOf(f.entry.params), <<TIMESTAMP, IntStr(f.now)>>)
                       /\ f.read_clock
                       /\ f.entry.clock <= f.now /\ f.now <= clock

\* a request went out with the clock's 10 after the caller's app_key
C3_Witness ==
    /\ http["t1"] # <<>>
    /\ rc["t1"].entry.params = <<<<APP_KEY, StrVal(<<"k", "1">>)>>>>
    /\ rc["t1"].now = 10
    /\ QueryOf(http["t1"][1].url) =
           <<"a", "p", "p", "_", "k", "e", "y", "=", "k", "1", "&",
             "t", "i", "m", "e", "s", "t", "a", "m", "p", "=", "1", "0">>

\* C9 as stated: after a call, returned or failed, the caller's params,
\* headers and body hold what they held before it.
C9_ArgumentsUntouched ==
    \A t \in Threads :
        rc[t].pc \in {"returned", "raised"} =>
            /\ Held(rc[t].params_arg) = rc[t].entry.params
            /\ Held(rc[t].headers) = rc[t].entry.headers
            /\ Held(rc[t].body) = rc[t].entry.body

\* C10 as stated: whatever the other thread does, a call that was handed
\* params without a "timestamp" key requests a url whose timestamp is the
\* clock value that this call read.
C10_OwnTimestamp ==
    \A t \in Threads :
        (http[t] # <<>> /\ ~Has(rc[t].entry.params, TIMESTAMP)) =>
            /\ rc[t].read_clock
            /\ \E i \in 1..Len(QueryEntries(QueryOf(http[t][1].url))) :
                   QueryEntries(QueryOf(http[t][1].url))[i] = <<TIMESTAMP, IntStr(rc[t].now)>>

====
